---- MODULE Spec2Model ----
(***************************************************************************)
(* A model of minipad-firmware.ino: the configuration record and its       *)
(* EEPROM copy, the serial command handler, the normalisation of the       *)
(* sensor readings and the two actuation models of loop().                 *)
(*                                                                         *)
(* Text (an Arduino String or a char array) is a sequence of character     *)
(* codes.  int is the 16-bit int and float the 32-bit IEEE float of the    *)
(* ATmega32U4 build the sketch targets (Keyboard.h, EEPROM.h without       *)
(* begin/commit).                                                          *)
(***************************************************************************)
EXTENDS Integers, Sequences, FiniteSets, TLC

\* ------------------------------------------------------------------------
\* Program constants
\* ------------------------------------------------------------------------
SAFEMODE_BOUNDARY == 20
TOLERANCE == 8
CONFIG_UID == 2247
\* char name[128]
NAME_SIZE == 128
\* the upper limit of the length test on a new name
NAME_MAX_LENGTH == 128
\* the upper end of the travel scale (the 400 of mapToRange400 and of the range checks)
RANGE_MAX == 400
\* the largest calibration value the command handler accepts
ANALOG_MAX == 1023
\* the lowest and highest key code the command handler accepts ('a' and 'z')
KEY_MIN == 97
KEY_MAX == 122
\* the initial value of lastRapidTriggerValueKey1/2
RAPID_TRIGGER_INIT == 0

\* ------------------------------------------------------------------------
\* 32-bit float arithmetic, as far as mapToRange400 uses it.  A positive
\* float is [m, e] with 2^23 <= m < 2^24 and value m * 2^e.
\* ------------------------------------------------------------------------
\* the number of bits of n, for 0 < n < 2^30
BitLength(n) ==
    LET s16 == IF n >= 2^16 THEN 16 ELSE 0
        n16 == n \div 2^s16
        s8 == IF n16 >= 2^8 THEN 8 ELSE 0
        n8 == n16 \div 2^s8
        s4 == IF n8 >= 2^4 THEN 4 ELSE 0
        n4 == n8 \div 2^s4
        s2 == IF n4 >= 2^2 THEN 2 ELSE 0
        n2 == n4 \div 2^s2
        s1 == IF n2 >= 2 THEN 1 ELSE 0
    IN s16 + s8 + s4 + s2 + s1 + 1

\* n / 2^s rounded to the nearest integer, ties to even
RoundShift(n, s) ==
    LET q == n \div (2^s)
        r == n % (2^s)
        half == 2^(s - 1)
    IN IF r > half \/ (r = half /\ q % 2 = 1) THEN q + 1 ELSE q

\* the float nearest to n * 2^e, for an integer n > 0
FloatOf(n, e) ==
    LET len == BitLength(n)
    IN IF len > 24
       THEN LET m == RoundShift(n, len - 24)
            IN IF m = 2^24 THEN [m |-> 2^23, e |-> e + len - 24 + 1]
                           ELSE [m |-> m, e |-> e + len - 24]
       ELSE [m |-> n * 2^(24 - len), e |-> e - (24 - len)]

\* the largest e with 2^e <= a / b, for integers 0 < a, b < 2^10
QuotientExp(a, b) ==
    IF a >= b THEN BitLength(a \div b) - 1
    ELSE LET k == BitLength(b \div a)
         IN IF a * 2^(k - 1) >= b THEN 1 - k ELSE 0 - k

\* <<floor(a * 2^k / b), (a * 2^k) mod b>> for 0 < b < 2^10 and k <= 40, the
\* quotient below 2^30: long division, twenty bits at a time
LongDiv(a, b, k) ==
    LET k1 == IF k > 20 THEN 20 ELSE k
        k2 == k - k1
        t1 == (a % b) * 2^k1
        t2 == (t1 % b) * 2^k2
    IN <<((a \div b) * 2^k1 + t1 \div b) * 2^k2 + t2 \div b, t2 % b>>

\* the float quotient a / b of two positive integers below 2^10
FloatDiv(a, b) ==
    LET e == QuotientExp(a, b)
        k == 23 - e
        d == LongDiv(a, b, k)
        up == 2 * d[2] > b \/ (2 * d[2] = b /\ d[1] % 2 = 1)
        m == IF up THEN d[1] + 1 ELSE d[1]
    IN IF m = 2^24 THEN [m |-> 2^23, e |-> 1 - k] ELSE [m |-> m, e |-> 0 - k]

\* the float product f * 400 (400 = 25 * 2^4)
FloatMul400(f) == FloatOf(f.m * 25, f.e + 4)

\* the float sum f + 0.5, for f.e <= -1
FloatAddHalf(f) == FloatOf(f.m + 2^(0 - 1 - f.e), f.e)

\* (long) f
FloatToLong(f) ==
    IF f.e >= 0 THEN f.m * 2^(f.e)
    ELSE IF 0 - f.e > 30 THEN 0 ELSE f.m \div 2^(0 - f.e)

\* the results (long) of an infinite or NaN float can give, after min(max(., 0), 400):
\* the conversion is undefined, the builds saturate or return 0
UndefinedRange == {0, RANGE_MAX}

Abs(x) == IF x < 0 THEN 0 - x ELSE x

\* mapToRange400 without min(..., 400)
mapToRange400NoUpperClamp(value, min, max) ==
    LET a == value - min
        b == max - min
    IN IF b = 0 THEN UndefinedRange
       ELSE IF a = 0 \/ ((a < 0) # (b < 0)) THEN {0}
       ELSE {FloatToLong(FloatAddHalf(FloatMul400(FloatDiv(Abs(a), Abs(b)))))}

\* int mapToRange400(int value, int min, int max): the set of possible results
mapToRange400(value, min, max) ==
    LET a == value - min
        b == max - min
    IN IF b = 0 THEN UndefinedRange
       ELSE IF a = 0 \/ ((a < 0) # (b < 0)) THEN {0}
       ELSE LET r == FloatToLong(FloatAddHalf(FloatMul400(FloatDiv(Abs(a), Abs(b)))))
            IN {IF r > RANGE_MAX THEN RANGE_MAX ELSE r}

\* ------------------------------------------------------------------------
\* Text
\* ------------------------------------------------------------------------
\* "reset"
s_reset == <<114, 101, 115, 101, 116>>
\* "save"
s_save == <<115, 97, 118, 101>>
\* "ping"
s_ping == <<112, 105, 110, 103>>
\* "get"
s_get == <<103, 101, 116>>
\* "rt"
s_rt == <<114, 116>>
\* "rts"
s_rts == <<114, 116, 115>>
\* "lh"
s_lh == <<108, 104>>
\* "uh"
s_uh == <<117, 104>>
\* "key1"
s_key1 == <<107, 101, 121, 49>>
\* "key2"
s_key2 == <<107, 101, 121, 50>>
\* "k1rp"
s_k1rp == <<107, 49, 114, 112>>
\* "k2rp"
s_k2rp == <<107, 50, 114, 112>>
\* "k1dp"
s_k1dp == <<107, 49, 100, 112>>
\* "k2dp"
s_k2dp == <<107, 50, 100, 112>>
\* "hid1"
s_hid1 == <<104, 105, 100, 49>>
\* "hid2"
s_hid2 == <<104, 105, 100, 50>>
\* "name"
s_name == <<110, 97, 109, 101>>
\* "tol"
s_tol == <<116, 111, 108>>
\* "true"
s_true == <<116, 114, 117, 101>>
\* "false"
s_false == <<102, 97, 108, 115, 101>>
\* "minipad", the name of defaultConfig
s_minipad == <<109, 105, 110, 105, 112, 97, 100>>
\* FIRMWARE_VERSION "20221219.2"
FIRMWARE_VERSION == <<50, 48, 50, 50, 49, 50, 49, 57, 46, 50>>

\* isspace()
IsSpace(c) == c = 32 \/ (c >= 9 /\ c <= 13)
IsDigit(c) == c >= 48 /\ c <= 57

\* the value of an int expression in the 16-bit int
Int16(n) == ((n + 32768) % 65536) - 32768

\* String::substring(left, right)
substring(data, left, right) ==
    LET l == IF left > right THEN right ELSE left
        r == IF left > right THEN left ELSE right
        rr == IF r > Len(data) THEN Len(data) ELSE r
    IN IF l >= Len(data) THEN <<>> ELSE SubSeq(data, l + 1, rr)

\* the least member of a non-empty set of integers
Least(S) == CHOOSE m \in S : \A k \in S : m <= k

\* The loop of getValue from position i on: <<found, strIndex[0], strIndex[1]>>.
\* The body acts only at a space or at the last position, so the loop is taken
\* from one such position j to the next.
RECURSIVE getValueLoop(_, _, _, _, _, _)
getValueLoop(data, index, i, found, s0, s1) ==
    LET length == Len(data) - 1
    IN IF ~(i <= length /\ found <= index) THEN <<found, s0, s1>>
       ELSE LET j == Least({k \in i..length : data[k + 1] = 32 \/ k = length})
            IN getValueLoop(data, index, j + 1, found + 1, s1 + 1,
                            IF j = length THEN j + 1 ELSE j)

\* String getValue(String data, int index)
getValue(data, index) ==
    LET r == getValueLoop(data, index, 0, 0, 0, -1)
    IN IF r[1] > index THEN substring(data, r[2], r[3]) ELSE <<>>

\* String::trim()
RECURSIVE TrimLeft(_)
TrimLeft(s) == IF s # <<>> /\ IsSpace(Head(s)) THEN TrimLeft(Tail(s)) ELSE s
RECURSIVE TrimRight(_)
TrimRight(s) ==
    IF s # <<>> /\ IsSpace(s[Len(s)]) THEN TrimRight(SubSeq(s, 1, Len(s) - 1)) ELSE s
trim(s) == TrimRight(TrimLeft(s))

\* atoi(): white space, an optional sign, then digits up to the first other character
RECURSIVE AtoiDigits(_, _)
AtoiDigits(s, acc) ==
    IF s # <<>> /\ IsDigit(Head(s))
    THEN AtoiDigits(Tail(s), Int16(acc * 10 + (Head(s) - 48)))
    ELSE acc
atoi(s) ==
    LET t == TrimLeft(s)
    IN IF t = <<>> THEN 0
       ELSE IF Head(t) = 45 THEN Int16(0 - AtoiDigits(Tail(t), 0))
       ELSE IF Head(t) = 43 THEN AtoiDigits(Tail(t), 0)
       ELSE AtoiDigits(t, 0)

\* String(int): the decimal text of n
RECURSIVE DecimalDigits(_)
DecimalDigits(n) ==
    IF n < 10 THEN <<48 + n>> ELSE Append(DecimalDigits(n \div 10), 48 + (n % 10))
StringOfInt(n) == IF n < 0 THEN <<45>> \o DecimalDigits(0 - n) ELSE DecimalDigits(n)

\* String(bool): the bool is promoted to int
StringOfBool(b) == IF b THEN <<49>> ELSE <<48>>

\* String(char): the text of one character
StringOfChar(c) == <<c>>

\* ------------------------------------------------------------------------
\* The configuration record
\* ------------------------------------------------------------------------
\* Configuration defaultConfig.  name holds the characters before the first
\* NUL of the 128-byte array; a name of NAME_SIZE characters has no NUL in it.
defaultConfig ==
    [uid |-> CONFIG_UID, name |-> s_minipad, rapidTrigger |-> TRUE,
     rapidTriggerSensitivity |-> 10, lowerHysteresis |-> 300, upperHysteresis |-> 330,
     key1 |-> 120, key2 |-> 121,
     key1RestPosition |-> 450, key2RestPosition |-> 450,
     key1DownPosition |-> 150, key2DownPosition |-> 150,
     key1HIDEnabled |-> TRUE, key2HIDEnabled |-> TRUE]

\* Configuration config before setup() runs: a zero-initialised global
zeroConfig ==
    [uid |-> 0, name |-> <<>>, rapidTrigger |-> FALSE,
     rapidTriggerSensitivity |-> 0, lowerHysteresis |-> 0, upperHysteresis |-> 0,
     key1 |-> 0, key2 |-> 0,
     key1RestPosition |-> 0, key2RestPosition |-> 0,
     key1DownPosition |-> 0, key2DownPosition |-> 0,
     key1HIDEnabled |-> FALSE, key2HIDEnabled |-> FALSE]

\* the record EEPROM.get reads from an erased EEPROM: every byte is 0xFF
erasedConfig ==
    [uid |-> -1, name |-> [i \in 1..NAME_SIZE |-> 255], rapidTrigger |-> TRUE,
     rapidTriggerSensitivity |-> -1, lowerHysteresis |-> -1, upperHysteresis |-> -1,
     key1 |-> -1, key2 |-> -1,
     key1RestPosition |-> -1, key2RestPosition |-> -1,
     key1DownPosition |-> -1, key2DownPosition |-> -1,
     key1HIDEnabled |-> TRUE, key2HIDEnabled |-> TRUE]

\* the two bytes of an int, low byte first
IntBytes(n) == <<(n + 65536) % 256, ((n + 65536) \div 256) % 256>>
BoolByte(b) == IF b THEN 1 ELSE 0

\* the bytes of the record that follow name, in the order of the struct
BytesAfterName(cfg) ==
    <<BoolByte(cfg.rapidTrigger)>> \o IntBytes(cfg.rapidTriggerSensitivity)
    \o IntBytes(cfg.lowerHysteresis) \o IntBytes(cfg.upperHysteresis)
    \o <<(cfg.key1 + 256) % 256, (cfg.key2 + 256) % 256>>
    \o IntBytes(cfg.key1RestPosition) \o IntBytes(cfg.key2RestPosition)
    \o IntBytes(cfg.key1DownPosition) \o IntBytes(cfg.key2DownPosition)
    \o <<BoolByte(cfg.key1HIDEnabled), BoolByte(cfg.key2HIDEnabled)>>

RECURSIVE UntilNul(_)
UntilNul(bytes) ==
    IF bytes = <<>> \/ Head(bytes) = 0 THEN <<>> ELSE <<Head(bytes)>> \o UntilNul(Tail(bytes))

\* config.name read as a C string (String(config.name), + config.name): the
\* characters up to the first NUL, which lies after the array when the name fills it
nameString(cfg) ==
    IF Len(cfg.name) < NAME_SIZE THEN cfg.name
    ELSE cfg.name \o UntilNul(BytesAfterName(cfg))

\* strcpy(config.name, value.c_str()): Len(value) characters and a NUL.  For a
\* value of NAME_SIZE characters the NUL is written past the end of name: the
\* write is undefined; it lands on the next byte of the record, rapidTrigger,
\* or is dropped.
strcpyName(cfg, value) ==
    IF Len(value) < NAME_SIZE THEN {[cfg EXCEPT !.name = value]}
    ELSE {[cfg EXCEPT !.name = value, !.rapidTrigger = b] : b \in {FALSE, cfg.rapidTrigger}}

\* ------------------------------------------------------------------------
\* handleSerialInput
\* ------------------------------------------------------------------------
\* one Serial.println: the text of the source with % for each inserted String
Resp(fmt, args) == [fmt |-> fmt, args |-> args]

\* resetConfig without the copy of key2HIDEnabled
resetConfigDropsFlag(cfg) ==
    [defaultConfig EXCEPT !.key1RestPosition = cfg.key1RestPosition,
                          !.key2RestPosition = cfg.key2RestPosition,
                          !.key1DownPosition = cfg.key1DownPosition,
                          !.key2DownPosition = cfg.key2DownPosition,
                          !.key1HIDEnabled = cfg.key1HIDEnabled]

\* the reset command: defaultConfig with the calibration and the HID flags kept
resetConfig(cfg) ==
    [defaultConfig EXCEPT !.key1RestPosition = cfg.key1RestPosition,
                          !.key2RestPosition = cfg.key2RestPosition,
                          !.key1DownPosition = cfg.key1DownPosition,
                          !.key2DownPosition = cfg.key2DownPosition,
                          !.key1HIDEnabled = cfg.key1HIDEnabled,
                          !.key2HIDEnabled = cfg.key2HIDEnabled]

\* the ping reply
pingOutput(cfg) == <<Resp("PONG % | %", <<FIRMWARE_VERSION, nameString(cfg)>>)>>

\* the replies to a line without a value
getOutput(cfg, key) ==
    LET line(k, fmt, text) == IF key = k \/ key = s_get THEN <<Resp(fmt, <<text>>)>> ELSE <<>>
    IN line(s_rt, "GET rt=%", StringOfBool(cfg.rapidTrigger))
       \o line(s_rts, "GET rts=%", StringOfInt(cfg.rapidTriggerSensitivity))
       \o line(s_lh, "GET lh=%", StringOfInt(cfg.lowerHysteresis))
       \o line(s_uh, "GET uh=%", StringOfInt(cfg.upperHysteresis))
       \o line(s_key1, "GET key1=%", StringOfChar(cfg.key1))
       \o line(s_key2, "GET key2=%", StringOfChar(cfg.key2))
       \o line(s_k1rp, "GET k1rp=%", StringOfInt(cfg.key1RestPosition))
       \o line(s_k2rp, "GET k2rp=%", StringOfInt(cfg.key2RestPosition))
       \o line(s_k1dp, "GET k1dp=%", StringOfInt(cfg.key1DownPosition))
       \o line(s_k2dp, "GET k2dp=%", StringOfInt(cfg.key2DownPosition))
       \o line(s_hid1, "GET hid1=%", StringOfBool(cfg.key1HIDEnabled))
       \o line(s_hid2, "GET hid2=%", StringOfBool(cfg.key2HIDEnabled))
       \o line(s_name, "GET name=%", nameString(cfg))
       \o line(s_tol, "GET tol=%", StringOfInt(TOLERANCE))
       \o (IF key = s_get THEN <<Resp("GET END", <<>>)>> ELSE <<>>)

\* key == "name": the possible [config, out]
setName(cfg, value) ==
    LET v == trim(value)
    IN IF Len(v) < 1 \/ Len(v) > NAME_MAX_LENGTH
       THEN {[config |-> cfg,
              out |-> <<Resp("The length of 'name' must be between 1 and 128.", <<>>)>>]}
       ELSE {[config |-> c, out |-> <<Resp("'name' was set to '%'", <<v>>)>>] :
                c \in strcpyName(cfg, v)}

\* coerce without the one-character case
coerceNoChar(value) ==
    LET valueInt == atoi(value)
    IN IF StringOfInt(valueInt) # value
       THEN IF value = s_true THEN [ok |-> TRUE, valueInt |-> 1]
            ELSE IF value = s_false THEN [ok |-> TRUE, valueInt |-> 0]
            ELSE [ok |-> FALSE, valueInt |-> valueInt]
       ELSE [ok |-> TRUE, valueInt |-> valueInt]

\* coerce without the final "else continue": the result of atoi is used
coerceNoContinue(value) ==
    LET valueInt == atoi(value)
    IN IF StringOfInt(valueInt) # value
       THEN IF Len(value) = 1
            THEN [ok |-> TRUE, valueInt |-> IF value[1] > 127 THEN value[1] - 256 ELSE value[1]]
            ELSE IF value = s_true THEN [ok |-> TRUE, valueInt |-> 1]
            ELSE IF value = s_false THEN [ok |-> TRUE, valueInt |-> 0]
            ELSE [ok |-> TRUE, valueInt |-> valueInt]
       ELSE [ok |-> TRUE, valueInt |-> valueInt]

\* the coercion of the value token to valueInt; ok is FALSE where the code
\* leaves the line by "continue"
coerce(value) ==
    LET valueInt == atoi(value)
    IN IF StringOfInt(valueInt) # value
       THEN IF Len(value) = 1
            THEN [ok |-> TRUE, valueInt |-> IF value[1] > 127 THEN value[1] - 256 ELSE value[1]]
            ELSE IF value = s_true THEN [ok |-> TRUE, valueInt |-> 1]
            ELSE IF value = s_false THEN [ok |-> TRUE, valueInt |-> 0]
            ELSE [ok |-> FALSE, valueInt |-> valueInt]
       ELSE [ok |-> TRUE, valueInt |-> valueInt]

BoolText(b) == IF b THEN s_true ELSE s_false

\* key == "rt"
setRapidTrigger(cfg, valueInt) ==
    IF valueInt # 0 /\ valueInt # 1
    THEN [config |-> cfg,
          out |-> <<Resp("Allowed values for 'rapidTrigger' are true/1 or false/0", <<>>)>>]
    ELSE [config |-> [cfg EXCEPT !.rapidTrigger = (valueInt = 1)],
          out |-> <<Resp("'rapidTrigger' was set to '%'", <<BoolText(valueInt = 1)>>)>>]

\* key == "rts"
setRapidTriggerSensitivity(cfg, valueInt, value) ==
    IF valueInt < TOLERANCE \/ valueInt > RANGE_MAX
    THEN [config |-> cfg,
          out |-> <<Resp("Allowed range for 'rapidTriggerSensitivity' is %-400",
                         <<StringOfInt(TOLERANCE)>>)>>]
    ELSE [config |-> [cfg EXCEPT !.rapidTriggerSensitivity = valueInt],
          out |-> <<Resp("'rapidTriggerSensitivity' was set to '%'", <<value>>)>>]

\* setLowerHysteresis with >= for > in the test against upperHysteresis
setLowerHysteresisOffByOne(cfg, valueInt, value) ==
    IF valueInt < 0 \/ valueInt > RANGE_MAX - TOLERANCE
    THEN [config |-> cfg,
          out |-> <<Resp("Allowed range for 'lowerHysteresis' is 0-%",
                         <<StringOfInt(RANGE_MAX - TOLERANCE)>>)>>]
    ELSE IF valueInt >= cfg.upperHysteresis - TOLERANCE
    THEN [config |-> cfg,
          out |-> <<Resp("The value 'lowerHysteresis' must be at least % less than the value 'upperHysteresis'",
                         <<StringOfInt(TOLERANCE)>>)>>]
    ELSE [config |-> [cfg EXCEPT !.lowerHysteresis = valueInt],
          out |-> <<Resp("'lowerHysteresis' was set to '%'", <<value>>)>>]

\* key == "lh"
setLowerHysteresis(cfg, valueInt, value) ==
    IF valueInt < 0 \/ valueInt > RANGE_MAX - TOLERANCE
    THEN [config |-> cfg,
          out |-> <<Resp("Allowed range for 'lowerHysteresis' is 0-%",
                         <<StringOfInt(RANGE_MAX - TOLERANCE)>>)>>]
    ELSE IF valueInt > cfg.upperHysteresis - TOLERANCE
    THEN [config |-> cfg,
          out |-> <<Resp("The value 'lowerHysteresis' must be at least % less than the value 'upperHysteresis'",
                         <<StringOfInt(TOLERANCE)>>)>>]
    ELSE [config |-> [cfg EXCEPT !.lowerHysteresis = valueInt],
          out |-> <<Resp("'lowerHysteresis' was set to '%'", <<value>>)>>]

\* setUpperHysteresis without the test against lowerHysteresis
setUpperHysteresisNoGap(cfg, valueInt, value) ==
    IF valueInt < 0 \/ valueInt > RANGE_MAX - TOLERANCE
    THEN [config |-> cfg,
          out |-> <<Resp("Allowed range for 'upperHysteresis' is 0-%",
                         <<StringOfInt(RANGE_MAX - TOLERANCE)>>)>>]
    ELSE [config |-> [cfg EXCEPT !.upperHysteresis = valueInt],
          out |-> <<Resp("'upperHysteresis' was set to '%'", <<value>>)>>]

\* key == "uh"
setUpperHysteresis(cfg, valueInt, value) ==
    IF valueInt < 0 \/ valueInt > RANGE_MAX - TOLERANCE
    THEN [config |-> cfg,
          out |-> <<Resp("Allowed range for 'upperHysteresis' is 0-%",
                         <<StringOfInt(RANGE_MAX - TOLERANCE)>>)>>]
    ELSE IF valueInt < cfg.lowerHysteresis + TOLERANCE
    THEN [config |-> cfg,
          out |-> <<Resp("The value 'upperHysteresis' must be at least % more than the value 'lowerHysteresis'",
                         <<StringOfInt(TOLERANCE)>>)>>]
    ELSE [config |-> [cfg EXCEPT !.upperHysteresis = valueInt],
          out |-> <<Resp("'upperHysteresis' was set to '%'", <<value>>)>>]

\* key == "key1" || key == "key2"
setKey(cfg, key, valueInt, value) ==
    IF valueInt < KEY_MIN \/ valueInt > KEY_MAX
    THEN [config |-> cfg,
          out |-> <<Resp("The value '%' must be between 97 and 122 (a-z)", <<key>>)>>]
    ELSE [config |-> IF key = s_key1 THEN [cfg EXCEPT !.key1 = valueInt]
                                     ELSE [cfg EXCEPT !.key2 = valueInt],
          out |-> <<Resp("'%' was set to '%'", <<key, value>>)>>]

\* key == "k1rp" || key == "k2rp"
setRestPosition(cfg, key, valueInt, value) ==
    IF valueInt < 0 \/ valueInt > ANALOG_MAX
    THEN [config |-> cfg, out |-> <<Resp("Allowed range for '%' is 0-1024", <<key>>)>>]
    ELSE [config |-> IF key = s_k1rp THEN [cfg EXCEPT !.key1RestPosition = valueInt]
                                     ELSE [cfg EXCEPT !.key2RestPosition = valueInt],
          out |-> <<Resp("'%' was set to '%'", <<key, value>>)>>]

\* key == "k1dp" || key == "k2dp"
setDownPosition(cfg, key, valueInt, value) ==
    IF valueInt < 0 \/ valueInt > ANALOG_MAX
    THEN [config |-> cfg, out |-> <<Resp("Allowed range for '%' is 0-1024", <<key>>)>>]
    ELSE [config |-> IF key = s_k1dp THEN [cfg EXCEPT !.key1DownPosition = valueInt]
                                     ELSE [cfg EXCEPT !.key2DownPosition = valueInt],
          out |-> <<Resp("'%' was set to '%'", <<key, value>>)>>]

\* key == "hid1" || key == "hid2"
setHIDEnabled(cfg, key, valueInt) ==
    IF valueInt # 0 /\ valueInt # 1
    THEN [config |-> cfg,
          out |-> <<Resp("Allowed values for '%' are true/1 or false/0", <<key>>)>>]
    ELSE [config |-> IF key = s_hid1 THEN [cfg EXCEPT !.key1HIDEnabled = (valueInt = 1)]
                                     ELSE [cfg EXCEPT !.key2HIDEnabled = (valueInt = 1)],
          out |-> <<Resp("'%' was set to '%'", <<key, BoolText(valueInt = 1)>>)>>]

\* the if/else-if chain on key, for a coerced value
setField(cfg, key, valueInt, value) ==
    IF key = s_rt THEN setRapidTrigger(cfg, valueInt)
    ELSE IF key = s_rts THEN setRapidTriggerSensitivity(cfg, valueInt, value)
    ELSE IF key = s_lh THEN setLowerHysteresis(cfg, valueInt, value)
    ELSE IF key = s_uh THEN setUpperHysteresis(cfg, valueInt, value)
    ELSE IF key = s_key1 \/ key = s_key2 THEN setKey(cfg, key, valueInt, value)
    ELSE IF key = s_k1rp \/ key = s_k2rp THEN setRestPosition(cfg, key, valueInt, value)
    ELSE IF key = s_k1dp \/ key = s_k2dp THEN setDownPosition(cfg, key, valueInt, value)
    ELSE IF key = s_hid1 \/ key = s_hid2 THEN setHIDEnabled(cfg, key, valueInt)
    ELSE [config |-> cfg, out |-> <<>>]

\* One pass of the while loop of handleSerialInput, for the line input: the
\* possible [config, store, out], store telling whether EEPROM.put(0, config) ran.
handleLine(cfg, input) ==
    LET key == getValue(input, 0)
        value == getValue(input, 1)
    IN IF key = s_reset
       THEN {[config |-> resetConfig(cfg), store |-> FALSE,
              out |-> <<Resp("Config resetted.", <<>>)>>]}
       ELSE IF key = s_save
       THEN {[config |-> cfg, store |-> TRUE,
              out |-> <<Resp("Config written to EEPROM.", <<>>)>>]}
       ELSE IF key = s_ping
       THEN {[config |-> cfg, store |-> FALSE, out |-> pingOutput(cfg)]}
       ELSE IF value = <<>>
       THEN {[config |-> cfg, store |-> FALSE, out |-> getOutput(cfg, key)]}
       ELSE IF key = s_name
       THEN {[config |-> r.config, store |-> FALSE, out |-> r.out] : r \in setName(cfg, value)}
       ELSE LET c == coerce(value)
            IN IF ~c.ok THEN {[config |-> cfg, store |-> FALSE, out |-> <<>>]}
               ELSE LET r == setField(cfg, key, c.valueInt, value)
                    IN {[config |-> r.config, store |-> FALSE, out |-> r.out]}

\* ------------------------------------------------------------------------
\* pressKey1, releaseKey1, pressKey2, releaseKey2: the new keyNPressed and the
\* Keyboard calls made (key names the function that made the call)
\* ------------------------------------------------------------------------
pressKey1(cfg) ==
    [pressed |-> TRUE,
     calls |-> IF cfg.key1HIDEnabled
               THEN <<[fn |-> "press", code |-> cfg.key1, key |-> 1]>> ELSE <<>>]

releaseKey1(cfg) ==
    [pressed |-> FALSE,
     calls |-> IF cfg.key1HIDEnabled
               THEN <<[fn |-> "release", code |-> cfg.key1, key |-> 1]>> ELSE <<>>]

\* pressKey2 without the test of key2HIDEnabled
pressKey2Always(cfg) ==
    [pressed |-> TRUE, calls |-> <<[fn |-> "press", code |-> cfg.key2, key |-> 2]>>]

pressKey2(cfg) ==
    [pressed |-> TRUE,
     calls |-> IF cfg.key2HIDEnabled
               THEN <<[fn |-> "press", code |-> cfg.key2, key |-> 2]>> ELSE <<>>]

releaseKey2(cfg) ==
    [pressed |-> FALSE,
     calls |-> IF cfg.key2HIDEnabled
               THEN <<[fn |-> "release", code |-> cfg.key2, key |-> 2]>> ELSE <<>>]

\* rapidTriggerTransition1 with the sensitivity left out of the press test
rapidTriggerTransition1NoMargin(cfg, pressed, last, value) ==
    IF value <= last /\ ~pressed THEN pressKey1(cfg)
    ELSE IF value >= last + cfg.rapidTriggerSensitivity /\ pressed THEN releaseKey1(cfg)
    ELSE [pressed |-> pressed, calls |-> <<>>]

\* ------------------------------------------------------------------------
\* loop(): the two actuation models, per key
\* ------------------------------------------------------------------------
\* the press/release test of the rapid trigger branch, key 1
rapidTriggerTransition1(cfg, pressed, last, value) ==
    IF value <= last - cfg.rapidTriggerSensitivity /\ ~pressed THEN pressKey1(cfg)
    ELSE IF value >= last + cfg.rapidTriggerSensitivity /\ pressed THEN releaseKey1(cfg)
    ELSE [pressed |-> pressed, calls |-> <<>>]

\* rapidTriggerValue1 with the two cases of key1Pressed exchanged
rapidTriggerValue1Swapped(pressed, last, value) ==
    IF (~pressed /\ value < last) \/ (pressed /\ value > last) THEN value ELSE last

\* the update of lastRapidTriggerValueKey1, with key1Pressed as the test left it
rapidTriggerValue1(pressed, last, value) ==
    IF (pressed /\ value < last) \/ (~pressed /\ value > last) THEN value ELSE last

\* rapidTriggerTransition2 with > for >= in the release test
rapidTriggerTransition2Strict(cfg, pressed, last, value) ==
    IF value <= last - cfg.rapidTriggerSensitivity /\ ~pressed THEN pressKey2(cfg)
    ELSE IF value > last + cfg.rapidTriggerSensitivity /\ pressed THEN releaseKey2(cfg)
    ELSE [pressed |-> pressed, calls |-> <<>>]

rapidTriggerTransition2(cfg, pressed, last, value) ==
    IF value <= last - cfg.rapidTriggerSensitivity /\ ~pressed THEN pressKey2(cfg)
    ELSE IF value >= last + cfg.rapidTriggerSensitivity /\ pressed THEN releaseKey2(cfg)
    ELSE [pressed |-> pressed, calls |-> <<>>]

rapidTriggerValue2(pressed, last, value) ==
    IF (pressed /\ value < last) \/ (~pressed /\ value > last) THEN value ELSE last

\* hysteresisTransition1 with < for <= in the press test
hysteresisTransition1Strict(cfg, pressed, value) ==
    IF value < cfg.lowerHysteresis /\ ~pressed THEN pressKey1(cfg)
    ELSE IF value >= cfg.upperHysteresis /\ pressed THEN releaseKey1(cfg)
    ELSE [pressed |-> pressed, calls |-> <<>>]

\* the press/release test of the hysteresis branch
hysteresisTransition1(cfg, pressed, value) ==
    IF value <= cfg.lowerHysteresis /\ ~pressed THEN pressKey1(cfg)
    ELSE IF value >= cfg.upperHysteresis /\ pressed THEN releaseKey1(cfg)
    ELSE [pressed |-> pressed, calls |-> <<>>]

hysteresisTransition2(cfg, pressed, value) ==
    IF value <= cfg.lowerHysteresis /\ ~pressed THEN pressKey2(cfg)
    ELSE IF value >= cfg.upperHysteresis /\ pressed THEN releaseKey2(cfg)
    ELSE [pressed |-> pressed, calls |-> <<>>]

\* ------------------------------------------------------------------------
\* State
\* ------------------------------------------------------------------------
VARIABLES
    pc,                         \* "setup": before EEPROM.get; "safemode": before the safe mode check; "loop"
    config,                     \* Configuration config
    eeprom,                     \* the record stored at EEPROM address 0
    lastRapidTriggerValueKey1,
    lastRapidTriggerValueKey2,
    key1Pressed,
    key2Pressed,
    value1,                     \* value1 and value2 of the pass of loop() just made, -1 after any other step
    value2,
    out,                        \* the lines the last step printed to Serial
    sinkCalls,                  \* the Keyboard.press / Keyboard.release calls of the last step
    op,                         \* the last step: its kind, the line handled, the raw samples read
    lastSaved,                  \* config as it was at the last save command, zeroConfig before the first
    sinkHeld,                   \* the Keyboard's side, followed in SpecSink only: per key, the key codes
                                \* pressed for it and not released since power-on
    steps                       \* the steps counted against MaxSteps

vars == <<pc, config, eeprom, lastRapidTriggerValueKey1, lastRapidTriggerValueKey2,
          key1Pressed, key2Pressed, value1, value2, out, sinkCalls, op, lastSaved,
          sinkHeld, steps>>

Op(kind, input, raw1, raw2) == [kind |-> kind, input |-> input, raw1 |-> raw1, raw2 |-> raw2]

\* no key code is held at the Keyboard for either key
noneHeld == [k \in 1..2 |-> {}]

\* the key codes held at the Keyboard per key after the calls of a step:
\* Keyboard.press adds its code to the report, Keyboard.release removes it
heldAfter(held, calls) ==
    [k \in 1..2 |->
        IF \E i \in DOMAIN calls : calls[i].key = k
        THEN LET c == calls[CHOOSE i \in DOMAIN calls : calls[i].key = k]
             IN IF c.fn = "press" THEN held[k] \cup {c.code} ELSE held[k] \ {c.code}
        ELSE held[k]]

\* power-on: the globals as their initialisers leave them, over an erased EEPROM
Init ==
    /\ pc = "setup"
    /\ config = zeroConfig
    /\ eeprom = erasedConfig
    /\ lastRapidTriggerValueKey1 = RAPID_TRIGGER_INIT
    /\ lastRapidTriggerValueKey2 = RAPID_TRIGGER_INIT
    /\ key1Pressed = FALSE
    /\ key2Pressed = FALSE
    /\ value1 = -1
    /\ value2 = -1
    /\ out = <<>>
    /\ sinkCalls = <<>>
    /\ op = Op("init", <<>>, -1, -1)
    /\ lastSaved = zeroConfig
    /\ sinkHeld = noneHeld
    /\ steps = 0

\* loadConfig without the EEPROM.put of the defaults
loadConfigNoPut(stored) ==
    IF stored.uid # CONFIG_UID
    THEN [config |-> defaultConfig, eeprom |-> stored]
    ELSE [config |-> stored, eeprom |-> stored]

\* loadConfig with the uid test inverted
loadConfigInverted(stored) ==
    IF stored.uid = CONFIG_UID
    THEN [config |-> defaultConfig, eeprom |-> defaultConfig]
    ELSE [config |-> stored, eeprom |-> stored]

\* the record setup() holds after EEPROM.get and the uid test: [config, eeprom]
loadConfig(stored) ==
    IF stored.uid # CONFIG_UID
    THEN [config |-> defaultConfig, eeprom |-> defaultConfig]
    ELSE [config |-> stored, eeprom |-> stored]

\* setup(), first part: EEPROM.get and the uid test
SetupLoad ==
    /\ pc = "setup"
    /\ pc' = "safemode"
    /\ config' = loadConfig(eeprom).config
    /\ eeprom' = loadConfig(eeprom).eeprom
    /\ out' = <<>>
    /\ sinkCalls' = <<>>
    /\ op' = Op("load", <<>>, -1, -1)
    /\ UNCHANGED <<lastRapidTriggerValueKey1, lastRapidTriggerValueKey2, key1Pressed,
                   key2Pressed, value1, value2, lastSaved, sinkHeld>>

\* the safe mode test on the two boot samples, as mapToRange400 returned m1 and m2
safeModeConfig(cfg, m1, m2) ==
    IF m1 <= SAFEMODE_BOUNDARY /\ m2 <= SAFEMODE_BOUNDARY THEN resetConfig(cfg) ELSE cfg

\* setup(), second part: the safe mode check; Keyboard.begin and Serial.begin
SetupSafeMode(raw1, raw2) ==
    /\ pc = "safemode"
    /\ pc' = "loop"
    /\ \E m1 \in mapToRange400(raw1, config.key1RestPosition, config.key1DownPosition),
          m2 \in mapToRange400(raw2, config.key2RestPosition, config.key2DownPosition) :
          config' = safeModeConfig(config, m1, m2)
    /\ out' = <<>>
    /\ sinkCalls' = <<>>
    /\ op' = Op("safemode", <<>>, raw1, raw2)
    /\ UNCHANGED <<eeprom, lastRapidTriggerValueKey1, lastRapidTriggerValueKey2, key1Pressed,
                   key2Pressed, value1, value2, lastSaved, sinkHeld>>

\* eepromPut that writes config whatever the command was
eepromPutAlways(stored, cfg, store) == cfg

\* the stored record after a command: EEPROM.put(0, config) in the save branch only
eepromPut(stored, cfg, store) == IF store THEN cfg ELSE stored

\* handleSerialInput(): one line read and handled
Command(input) ==
    /\ pc = "loop"
    /\ \E r \in handleLine(config, input) :
          /\ config' = r.config
          /\ eeprom' = eepromPut(eeprom, config, r.store)
          /\ lastSaved' = IF r.store THEN config ELSE lastSaved
          /\ out' = r.out
    /\ sinkCalls' = <<>>
    /\ value1' = -1
    /\ value2' = -1
    /\ op' = Op("line", input, -1, -1)
    /\ UNCHANGED <<pc, lastRapidTriggerValueKey1, lastRapidTriggerValueKey2, key1Pressed,
                   key2Pressed, sinkHeld>>

\* loop() after the serial input: both sensors read as raw1 and raw2, mapped and evaluated;
\* what the Keyboard holds after the calls is added by Held where it is followed
Cycle(raw1, raw2) ==
    /\ pc = "loop"
    /\ \E v1 \in mapToRange400(raw1, config.key1DownPosition, config.key1RestPosition),
          v2 \in mapToRange400(raw2, config.key2DownPosition, config.key2RestPosition) :
          LET t1 == IF config.rapidTrigger
                    THEN rapidTriggerTransition1(config, key1Pressed, lastRapidTriggerValueKey1, v1)
                    ELSE hysteresisTransition1(config, key1Pressed, v1)
              t2 == IF config.rapidTrigger
                    THEN rapidTriggerTransition2(config, key2Pressed, lastRapidTriggerValueKey2, v2)
                    ELSE hysteresisTransition2(config, key2Pressed, v2)
          IN /\ value1' = v1
             /\ value2' = v2
             /\ key1Pressed' = t1.pressed
             /\ key2Pressed' = t2.pressed
             /\ lastRapidTriggerValueKey1' =
                    IF config.rapidTrigger
                    THEN rapidTriggerValue1(t1.pressed, lastRapidTriggerValueKey1, v1)
                    ELSE lastRapidTriggerValueKey1
             /\ lastRapidTriggerValueKey2' =
                    IF config.rapidTrigger
                    THEN rapidTriggerValue2(t2.pressed, lastRapidTriggerValueKey2, v2)
                    ELSE lastRapidTriggerValueKey2
             /\ sinkCalls' = t1.calls \o t2.calls
    /\ out' = <<>>
    /\ op' = Op("cycle", <<>>, raw1, raw2)
    /\ UNCHANGED <<pc, config, eeprom, lastSaved>>

\* a reset or power cycle: the RAM is initialised again, the EEPROM keeps its record
PowerCycle ==
    /\ pc = "loop"
    /\ pc' = "setup"
    /\ config' = zeroConfig
    /\ lastRapidTriggerValueKey1' = RAPID_TRIGGER_INIT
    /\ lastRapidTriggerValueKey2' = RAPID_TRIGGER_INIT
    /\ key1Pressed' = FALSE
    /\ key2Pressed' = FALSE
    /\ value1' = -1
    /\ value2' = -1
    /\ out' = <<>>
    /\ sinkCalls' = <<>>
    /\ op' = Op("power", <<>>, -1, -1)
    /\ sinkHeld' = noneHeld
    /\ UNCHANGED <<eeprom, lastSaved>>

\* ------------------------------------------------------------------------
\* Inputs and specifications
\* ------------------------------------------------------------------------
\* the number of command lines, passes of loop() and power cycles of a run of Spec
MaxSteps == 3

\* the text of the command lines used as input
ln_reset == <<114, 101, 115, 101, 116>>   \* "reset"
ln_save == <<115, 97, 118, 101>>   \* "save"
ln_ping == <<112, 105, 110, 103>>   \* "ping"
ln_get == <<103, 101, 116>>   \* "get"
ln_rts == <<114, 116, 115>>   \* "rts"
ln_tol_5 == <<116, 111, 108, 32, 53>>   \* "tol 5"
ln_foo_5 == <<102, 111, 111, 32, 53>>   \* "foo 5"
ln_rt_false == <<114, 116, 32, 102, 97, 108, 115, 101>>   \* "rt false"
ln_rt_1 == <<114, 116, 32, 49>>   \* "rt 1"
ln_rt_2 == <<114, 116, 32, 50>>   \* "rt 2"
ln_rts_7 == <<114, 116, 115, 32, 55>>   \* "rts 7"
ln_rts_8 == <<114, 116, 115, 32, 56>>   \* "rts 8"
ln_rts_400 == <<114, 116, 115, 32, 52, 48, 48>>   \* "rts 400"
ln_rts_401 == <<114, 116, 115, 32, 52, 48, 49>>   \* "rts 401"
ln_rts_abc == <<114, 116, 115, 32, 97, 98, 99>>   \* "rts abc"
ln_rts_010 == <<114, 116, 115, 32, 48, 49, 48>>   \* "rts 010"
ln_lh_100 == <<108, 104, 32, 49, 48, 48>>   \* "lh 100"
ln_lh_322 == <<108, 104, 32, 51, 50, 50>>   \* "lh 322"
ln_lh_323 == <<108, 104, 32, 51, 50, 51>>   \* "lh 323"
ln_lh_minus1 == <<108, 104, 32, 45, 49>>   \* "lh -1"
ln_lh_393 == <<108, 104, 32, 51, 57, 51>>   \* "lh 393"
ln_uh_105 == <<117, 104, 32, 49, 48, 53>>   \* "uh 105"
ln_uh_200 == <<117, 104, 32, 50, 48, 48>>   \* "uh 200"
ln_uh_307 == <<117, 104, 32, 51, 48, 55>>   \* "uh 307"
ln_uh_308 == <<117, 104, 32, 51, 48, 56>>   \* "uh 308"
ln_uh_392 == <<117, 104, 32, 51, 57, 50>>   \* "uh 392"
ln_uh_393 == <<117, 104, 32, 51, 57, 51>>   \* "uh 393"
ln_key1_a == <<107, 101, 121, 49, 32, 97>>   \* "key1 a"
ln_key1_96 == <<107, 101, 121, 49, 32, 57, 54>>   \* "key1 96"
ln_key2_122 == <<107, 101, 121, 50, 32, 49, 50, 50>>   \* "key2 122"
ln_key2_brace == <<107, 101, 121, 50, 32, 123>>   \* "key2 {"
ln_key1_abc == <<107, 101, 121, 49, 32, 97, 98, 99>>   \* "key1 abc"
ln_k1rp_1023 == <<107, 49, 114, 112, 32, 49, 48, 50, 51>>   \* "k1rp 1023"
ln_k1rp_1024 == <<107, 49, 114, 112, 32, 49, 48, 50, 52>>   \* "k1rp 1024"
ln_k2rp_0 == <<107, 50, 114, 112, 32, 48>>   \* "k2rp 0"
ln_k1dp_minus1 == <<107, 49, 100, 112, 32, 45, 49>>   \* "k1dp -1"
ln_k1dp_0 == <<107, 49, 100, 112, 32, 48>>   \* "k1dp 0"
ln_k2dp_1023 == <<107, 50, 100, 112, 32, 49, 48, 50, 51>>   \* "k2dp 1023"
ln_k2dp_0 == <<107, 50, 100, 112, 32, 48>>   \* "k2dp 0"
ln_rts_70000 == <<114, 116, 115, 32, 55, 48, 48, 48, 48>>   \* "rts 70000"
ln_k2dp_plus10 == <<107, 50, 100, 112, 32, 43, 49, 48>>   \* "k2dp +10"
ln_hid1_false == <<104, 105, 100, 49, 32, 102, 97, 108, 115, 101>>   \* "hid1 false"
ln_hid1_2 == <<104, 105, 100, 49, 32, 50>>   \* "hid1 2"
ln_hid2_0 == <<104, 105, 100, 50, 32, 48>>   \* "hid2 0"
ln_hid2_yes == <<104, 105, 100, 50, 32, 121, 101, 115>>   \* "hid2 yes"
ln_name_pad == <<110, 97, 109, 101, 32, 112, 97, 100>>   \* "name pad"
ln_name_my_pad == <<110, 97, 109, 101, 32, 109, 121, 32, 112, 97, 100>>   \* "name my pad"
ln_name_tab == <<110, 97, 109, 101, 32, 9>>   \* "name \t"
ln_rt_true == <<114, 116, 32, 116, 114, 117, 101>>   \* "rt true"
ln_hid2_false == <<104, 105, 100, 50, 32, 102, 97, 108, 115, 101>>   \* "hid2 false"

\* the command lines of Spec, but for the two long names
ShortLines ==
    {
      ln_reset, ln_save, ln_ping, ln_get, ln_rts,
      ln_tol_5, ln_foo_5, ln_rt_false, ln_rt_1, ln_rt_2,
      ln_rts_7, ln_rts_8, ln_rts_400, ln_rts_401, ln_rts_abc,
      ln_rts_010, ln_lh_100, ln_lh_322, ln_lh_323, ln_lh_minus1,
      ln_lh_393, ln_uh_105, ln_uh_200, ln_uh_307, ln_uh_308,
      ln_uh_392, ln_uh_393, ln_key1_a, ln_key1_96, ln_key2_122,
      ln_key2_brace, ln_key1_abc, ln_k1rp_1023, ln_k1rp_1024, ln_k2rp_0,
      ln_k1dp_minus1, ln_k1dp_0, ln_k2dp_1023, ln_k2dp_0, ln_rts_70000,
      ln_k2dp_plus10, ln_hid1_false,
      ln_hid1_2, ln_hid2_0, ln_hid2_yes, ln_name_pad, ln_name_my_pad,
      ln_name_tab
    }

\* the command lines of SpecAct
ActLines ==
    {
      ln_rt_false, ln_rt_true, ln_rts_8, ln_uh_392, ln_hid1_false,
      ln_hid2_false, ln_key1_a, ln_reset
    }

\* "name " and a text that fills the name array, and one that is a character longer
ln_name_full == s_name \o <<32>> \o [i \in 1..NAME_SIZE |-> 78]
ln_name_long == s_name \o <<32>> \o [i \in 1..NAME_MAX_LENGTH + 1 |-> 78]
LongNameLines == {ln_name_full, ln_name_long}

Lines == ShortLines \cup LongNameLines

\* raw samples (analogRead) of the two sensors in a pass of loop() of Spec: with the
\* default calibration 150 is the key fully down and 450 the key at rest
CmdSamples == {<<150, 150>>, <<450, 450>>, <<150, 450>>}

\* raw samples at boot
BootSamples == {150, 444, 450}

\* raw samples of SpecAct.  With the default calibration they map to
\* 0, 8, 200, 300, 392 and 400.
ActRaw == {150, 156, 300, 375, 444, 450}
ActSamples == {<<r, r>> : r \in ActRaw} \cup {<<150, 450>>, <<450, 150>>}

Counted == steps < MaxSteps /\ steps' = steps + 1

\* the Keyboard's report follows the calls of the step
Held == sinkHeld' = heldAfter(sinkHeld, sinkCalls')

\* the command pipeline: every command line, a few samples, power cycles
Next ==
    \/ SetupLoad /\ UNCHANGED steps
    \/ \E r1 \in BootSamples, r2 \in BootSamples : SetupSafeMode(r1, r2) /\ UNCHANGED steps
    \/ Counted /\ \E input \in Lines : Command(input)
    \/ Counted /\ \E s \in CmdSamples : Cycle(s[1], s[2]) /\ UNCHANGED sinkHeld
    \/ Counted /\ PowerCycle

Spec == Init /\ [][Next]_vars

\* the actuation engine: many samples, the command lines that bear on actuation
NextAct ==
    \/ SetupLoad /\ UNCHANGED steps
    \/ \E r1 \in BootSamples, r2 \in BootSamples : SetupSafeMode(r1, r2) /\ UNCHANGED steps
    \/ \E input \in ActLines : Command(input) /\ UNCHANGED steps
    \/ \E s \in ActSamples : Cycle(s[1], s[2]) /\ UNCHANGED <<steps, sinkHeld>>

SpecAct == Init /\ [][NextAct]_vars

\* the command lines that change what a press or a release sends, or the model
SinkLines == {ln_key1_a, ln_hid1_false, ln_hid2_false, ln_reset, ln_rt_false, ln_rt_true}

\* the Keyboard's side of the actuation: commands that bear on the calls, both
\* ends of the travel, and the codes the Keyboard holds
NextSink ==
    \/ SetupLoad /\ UNCHANGED steps
    \/ \E r1 \in BootSamples, r2 \in BootSamples : SetupSafeMode(r1, r2) /\ UNCHANGED steps
    \/ \E input \in SinkLines : Command(input) /\ UNCHANGED steps
    \/ \E s \in CmdSamples : Cycle(s[1], s[2]) /\ Held /\ UNCHANGED steps

SpecSink == Init /\ [][NextSink]_vars

\* calibrations <<down position, rest position>> and raw samples for mapToRange400
MapSpans == {<<0, 960>>, <<960, 0>>, <<150, 450>>, <<450, 150>>, <<0, 800>>, <<0, 1023>>,
             <<1023, 0>>}
MapRaws == {0, 1, 149, 150, 151, 300, 449, 450, 451, 493, 594, 595, 799, 800, 959, 960,
            1022, 1023}

\* the main loop entered with both keys calibrated to one of MapSpans, set and saved before
InitMap ==
    /\ pc = "loop"
    /\ \E span \in MapSpans :
          config = [defaultConfig EXCEPT !.key1DownPosition = span[1],
                                         !.key1RestPosition = span[2],
                                         !.key2DownPosition = span[1],
                                         !.key2RestPosition = span[2]]
    /\ eeprom = config
    /\ lastSaved = config
    /\ lastRapidTriggerValueKey1 = RAPID_TRIGGER_INIT
    /\ lastRapidTriggerValueKey2 = RAPID_TRIGGER_INIT
    /\ key1Pressed = FALSE
    /\ key2Pressed = FALSE
    /\ value1 = -1
    /\ value2 = -1
    /\ out = <<>>
    /\ sinkCalls = <<>>
    /\ op = Op("safemode", <<>>, 450, 450)
    /\ sinkHeld = noneHeld
    /\ steps = 0

\* passes of loop() in which key 2 reads the next raw value above that of key 1
NextMap ==
    \E raw \in MapRaws :
        Cycle(raw, IF raw < ANALOG_MAX THEN raw + 1 ELSE raw) /\ UNCHANGED <<steps, sinkHeld>>

SpecMap == InitMap /\ [][NextMap]_vars

\* ------------------------------------------------------------------------
\* Properties
\* ------------------------------------------------------------------------
\* the replies that report an accepted set, and those that report a rejected one
SetFormats ==
    {"'rapidTrigger' was set to '%'", "'rapidTriggerSensitivity' was set to '%'",
     "'lowerHysteresis' was set to '%'", "'upperHysteresis' was set to '%'",
     "'%' was set to '%'", "'name' was set to '%'"}

RejectFormats ==
    {"Allowed values for 'rapidTrigger' are true/1 or false/0",
     "Allowed range for 'rapidTriggerSensitivity' is %-400",
     "Allowed range for 'lowerHysteresis' is 0-%",
     "The value 'lowerHysteresis' must be at least % less than the value 'upperHysteresis'",
     "Allowed range for 'upperHysteresis' is 0-%",
     "The value 'upperHysteresis' must be at least % more than the value 'lowerHysteresis'",
     "The value '%' must be between 97 and 122 (a-z)",
     "Allowed range for '%' is 0-1024",
     "Allowed values for '%' are true/1 or false/0",
     "The length of 'name' must be between 1 and 128."}

\* the step handles the command line l
Handles(l) == op'.kind = "line" /\ op'.input = l

\* the step answered with one reply that reports an accepted set / a rejection
AcceptedReply == Len(out') = 1 /\ out'[1].fmt \in SetFormats
RejectedReply == Len(out') = 1 /\ out'[1].fmt \in RejectFormats

\* C1: in the main loop, after any commands and passes of loop(), the numeric
\* fields of config are in range: 8 <= rapidTriggerSensitivity <= 400, both
\* hysteresis values in 0..392 with lowerHysteresis + TOLERANCE <= upperHysteresis,
\* both key codes in 97..122, the four calibration values in 0..1023.
C1_NumericInvariants ==
    pc = "loop" =>
        /\ 8 <= config.rapidTriggerSensitivity /\ config.rapidTriggerSensitivity <= 400
        /\ 0 <= config.lowerHysteresis /\ config.lowerHysteresis <= 392
        /\ 0 <= config.upperHysteresis /\ config.upperHysteresis <= 392
        /\ config.lowerHysteresis + TOLERANCE <= config.upperHysteresis
        /\ \A k \in {config.key1, config.key2} : 97 <= k /\ k <= 122
        /\ \A c \in {config.key1RestPosition, config.key1DownPosition,
                     config.key2RestPosition, config.key2DownPosition} : 0 <= c /\ c <= 1023

\* C1 witness: commands and passes of loop() have run, a key is pressed and the
\* hysteresis values were set to lie exactly TOLERANCE apart
C1_Witness ==
    /\ pc = "loop"
    /\ key1Pressed
    /\ config.lowerHysteresis = 322
    /\ config.upperHysteresis = config.lowerHysteresis + TOLERANCE

\* the commands "rts v", "lh v" and "uh v" of Lines: <<line, field, v>>
ThresholdCommands ==
    {<<ln_rts_7, "rts", 7>>, <<ln_rts_8, "rts", 8>>, <<ln_rts_400, "rts", 400>>,
     <<ln_rts_401, "rts", 401>>,
     <<ln_lh_100, "lh", 100>>, <<ln_lh_322, "lh", 322>>, <<ln_lh_323, "lh", 323>>,
     <<ln_lh_minus1, "lh", -1>>, <<ln_lh_393, "lh", 393>>,
     <<ln_uh_105, "uh", 105>>, <<ln_uh_200, "uh", 200>>, <<ln_uh_307, "uh", 307>>,
     <<ln_uh_308, "uh", 308>>, <<ln_uh_392, "uh", 392>>, <<ln_uh_393, "uh", 393>>}

\* the rule of the specification for a set of field f to v, against cfg
ThresholdRule(cfg, f, v) ==
    CASE f = "rts" -> 8 <= v /\ v <= 400
      [] f = "lh" -> 0 <= v /\ v <= 392 /\ v <= cfg.upperHysteresis - 8
      [] f = "uh" -> 0 <= v /\ v <= 392 /\ v >= cfg.lowerHysteresis + 8

\* cfg with field f set to v
ThresholdSet(cfg, f, v) ==
    CASE f = "rts" -> [cfg EXCEPT !.rapidTriggerSensitivity = v]
      [] f = "lh" -> [cfg EXCEPT !.lowerHysteresis = v]
      [] f = "uh" -> [cfg EXCEPT !.upperHysteresis = v]

\* a threshold command is accepted exactly when the rule holds of the current config
C2_RuleStep ==
    \A c \in ThresholdCommands :
        Handles(c[1]) =>
            IF ThresholdRule(config, c[2], c[3])
            THEN config' = ThresholdSet(config, c[2], c[3]) /\ AcceptedReply
            ELSE config' = config /\ RejectedReply

\* the scenarios: "uh 105" after "lh 100" is rejected; "rts 7" is rejected and the
\* sensitivity stays; "lh 100" is accepted under an upperHysteresis of 200
C2_ScenarioStep ==
    /\ Handles(ln_uh_105) /\ config.lowerHysteresis = 100 =>
           config' = config /\ RejectedReply
    /\ Handles(ln_rts_7) =>
           config'.rapidTriggerSensitivity = config.rapidTriggerSensitivity /\ RejectedReply
    /\ Handles(ln_lh_100) /\ config.upperHysteresis = 200 =>
           config'.lowerHysteresis = 100 /\ AcceptedReply

\* C2 (as amended): a set of rapidTriggerSensitivity, lowerHysteresis or
\* upperHysteresis is accepted exactly when the rule holds against the config
\* current at that command; "uh 200" is accepted when lowerHysteresis <= 192 at
\* that time, as it is after an accepted "lh 100".
C2_ThresholdRule ==
    [][/\ C2_RuleStep
       /\ C2_ScenarioStep
       /\ Handles(ln_uh_200) /\ config.lowerHysteresis <= 192 =>
              config'.upperHysteresis = 200 /\ AcceptedReply]_vars

\* C2 as stated: the rule, and "uh 200" then "lh 100" both accepted on a
\* Configuration with the built-in thresholds (lowerHysteresis 300, upperHysteresis 330)
C2_Original ==
    [][/\ C2_RuleStep
       /\ C2_ScenarioStep
       /\ Handles(ln_uh_200) /\ config.lowerHysteresis = 300 /\ config.upperHysteresis = 330 =>
              config'.upperHysteresis = 200 /\ AcceptedReply]_vars

\* C2 witness: "lh 100" was accepted after "uh 200" had been
C2_Witness ==
    /\ op.kind = "line" /\ op.input = ln_lh_100
    /\ config.lowerHysteresis = 100 /\ config.upperHysteresis = 200
    /\ Len(out) = 1 /\ out[1].fmt \in SetFormats

\* C3: reset leaves the four calibration values and the two HID flags as they
\* are in memory and sets every other field of config to its built-in default.
C3_ResetFrame ==
    [][Handles(ln_reset) =>
           /\ config'.key1RestPosition = config.key1RestPosition
           /\ config'.key1DownPosition = config.key1DownPosition
           /\ config'.key2RestPosition = config.key2RestPosition
           /\ config'.key2DownPosition = config.key2DownPosition
           /\ config'.key1HIDEnabled = config.key1HIDEnabled
           /\ config'.key2HIDEnabled = config.key2HIDEnabled
           /\ config'.uid = 2247
           /\ config'.name = s_minipad
           /\ config'.rapidTrigger = TRUE
           /\ config'.rapidTriggerSensitivity = 10
           /\ config'.lowerHysteresis = 300
           /\ config'.upperHysteresis = 330
           /\ config'.key1 = 120
           /\ config'.key2 = 121]_vars

\* C3 witness: a reset was handled with a calibration value and an HID flag off their defaults
C3_Witness ==
    /\ op.kind = "line" /\ op.input = ln_reset
    /\ config.key1RestPosition = 1023
    /\ ~config.key2HIDEnabled

\* C4: the load of a startup that follows a save yields the config that was
\* saved, field for field, and leaves it in the EEPROM.
C4_SaveLoadRoundTrip ==
    (op.kind = "load" /\ lastSaved # zeroConfig) => (config = lastSaved /\ eeprom = lastSaved)

\* C4 witness: a config that differs from the default was saved and loaded at the next startup
C4_Witness ==
    /\ op.kind = "load"
    /\ lastSaved # zeroConfig
    /\ config # defaultConfig

\* the lines whose value token does not parse or whose key is no settable field
SilentLines ==
    {ln_rts_abc, ln_rts_010, ln_key1_abc, ln_k2dp_plus10, ln_hid2_yes, ln_tol_5, ln_foo_5}

\* the lines whose value fails its validation rule against cfg
Rejected(cfg, l) ==
    \/ l \in {ln_rt_2, ln_rts_7, ln_rts_401, ln_lh_minus1, ln_lh_393, ln_uh_393, ln_key1_96,
              ln_key2_brace, ln_k1rp_1024, ln_k1dp_minus1, ln_hid1_2, ln_name_long, ln_name_tab}
    \/ \E c \in ThresholdCommands : l = c[1] /\ ~ThresholdRule(cfg, c[2], c[3])

\* the step leaves config, the stored record and the actuation state of both keys alone
NothingChanged ==
    /\ config' = config
    /\ eeprom' = eeprom
    /\ key1Pressed' = key1Pressed /\ key2Pressed' = key2Pressed
    /\ lastRapidTriggerValueKey1' = lastRapidTriggerValueKey1
    /\ lastRapidTriggerValueKey2' = lastRapidTriggerValueKey2

\* C5: a set line with an unparseable value token, or with a key that is no
\* settable field, changes nothing and prints nothing; a line whose value fails
\* validation changes nothing and prints exactly one rejection.
C5_IgnoredAndRejected ==
    [][/\ \A l \in SilentLines : Handles(l) => NothingChanged /\ out' = <<>>
       /\ \A l \in Lines : Handles(l) /\ Rejected(config, l) => NothingChanged /\ RejectedReply]_vars

\* C5 witness: an unparseable token was ignored while a key was pressed
C5_Witness ==
    /\ op.kind = "line" /\ op.input = ln_rts_abc
    /\ key1Pressed
    /\ out = <<>>

\* set commands of Lines with the field they name and the value they carry
SetCommands ==
    {<<ln_rt_false, "rapidTrigger", FALSE>>, <<ln_rt_1, "rapidTrigger", TRUE>>,
     <<ln_rts_8, "rapidTriggerSensitivity", 8>>, <<ln_rts_400, "rapidTriggerSensitivity", 400>>,
     <<ln_lh_100, "lowerHysteresis", 100>>, <<ln_lh_322, "lowerHysteresis", 322>>,
     <<ln_uh_308, "upperHysteresis", 308>>, <<ln_uh_392, "upperHysteresis", 392>>,
     <<ln_key1_a, "key1", 97>>, <<ln_key2_122, "key2", 122>>,
     <<ln_k1rp_1023, "key1RestPosition", 1023>>, <<ln_k2rp_0, "key2RestPosition", 0>>,
     <<ln_k1dp_0, "key1DownPosition", 0>>, <<ln_k2dp_1023, "key2DownPosition", 1023>>,
     <<ln_hid1_false, "key1HIDEnabled", FALSE>>, <<ln_hid2_0, "key2HIDEnabled", FALSE>>,
     <<ln_name_pad, "name", <<112, 97, 100>>>>,
     <<ln_name_full, "name", [i \in 1..128 |-> 78]>>}

\* C6: an accepted set command changes the field it names to the accepted value
\* and no other field of config; so for every settable field, and for a name of
\* every length from 1 to 128.
C6_SetChangesOneField ==
    [][\A c \in SetCommands :
           Handles(c[1]) /\ AcceptedReply => config' = [config EXCEPT ![c[2]] = c[3]]]_vars

\* the step is a pass of loop()
CycleStep == op'.kind = "cycle"

\* the Keyboard calls of the last step made for key k
CallsOf(calls, k) == {i \in DOMAIN calls : calls[i].key = k}

\* C7: with rapidTrigger off, in every pass of loop() a key goes from released
\* to pressed exactly when it was released and its value is <= lowerHysteresis,
\* and from pressed to released exactly when it was pressed and its value is
\* >= upperHysteresis.
C7_Hysteresis ==
    [][CycleStep /\ ~config.rapidTrigger =>
           /\ (~key1Pressed /\ key1Pressed') <=>
                  (~key1Pressed /\ value1' <= config.lowerHysteresis)
           /\ (key1Pressed /\ ~key1Pressed') <=>
                  (key1Pressed /\ value1' >= config.upperHysteresis)
           /\ (~key2Pressed /\ key2Pressed') <=>
                  (~key2Pressed /\ value2' <= config.lowerHysteresis)
           /\ (key2Pressed /\ ~key2Pressed') <=>
                  (key2Pressed /\ value2' >= config.upperHysteresis)]_vars

\* C7 witness: key 1 was pressed by a pass of loop() at a value equal to lowerHysteresis
C7_Witness ==
    /\ op.kind = "cycle"
    /\ ~config.rapidTrigger
    /\ value1 = config.lowerHysteresis
    /\ \E i \in CallsOf(sinkCalls, 1) : sinkCalls[i].fn = "press"

\* C8: with rapidTrigger on, in every pass of loop() a key goes from released to
\* pressed exactly when it was released and its value is <= extremum - sensitivity,
\* and from pressed to released exactly when it was pressed and its value is
\* >= extremum + sensitivity, the extremum being lastRapidTriggerValueKeyN as the
\* pass found it; nothing changes while the value is less than sensitivity away.
C8_RapidTrigger ==
    [][CycleStep /\ config.rapidTrigger =>
           /\ (~key1Pressed /\ key1Pressed') <=>
                  (~key1Pressed
                   /\ value1' <= lastRapidTriggerValueKey1 - config.rapidTriggerSensitivity)
           /\ (key1Pressed /\ ~key1Pressed') <=>
                  (key1Pressed
                   /\ value1' >= lastRapidTriggerValueKey1 + config.rapidTriggerSensitivity)
           /\ (~key2Pressed /\ key2Pressed') <=>
                  (~key2Pressed
                   /\ value2' <= lastRapidTriggerValueKey2 - config.rapidTriggerSensitivity)
           /\ (key2Pressed /\ ~key2Pressed') <=>
                  (key2Pressed
                   /\ value2' >= lastRapidTriggerValueKey2 + config.rapidTriggerSensitivity)
           /\ Abs(value1' - lastRapidTriggerValueKey1) < config.rapidTriggerSensitivity =>
                  key1Pressed' = key1Pressed
           /\ Abs(value2' - lastRapidTriggerValueKey2) < config.rapidTriggerSensitivity =>
                  key2Pressed' = key2Pressed]_vars

\* C8 witness: key 2 was released by a pass of loop() at a value exactly
\* rapidTriggerSensitivity above the lowest value 0
C8_Witness ==
    /\ op.kind = "cycle"
    /\ config.rapidTrigger
    /\ value2 = config.rapidTriggerSensitivity
    /\ \E i \in CallsOf(sinkCalls, 2) : sinkCalls[i].fn = "release"

Min(a, b) == IF a < b THEN a ELSE b
Max(a, b) == IF a > b THEN a ELSE b

\* C9: in every pass of loop() with rapidTrigger on, the extremum becomes
\* min(extremum, value) if the key is pressed after the press/release test of
\* that pass and max(extremum, value) if it is released, transition or not.
C9_ExtremumUpdate ==
    [][CycleStep /\ config.rapidTrigger =>
           /\ lastRapidTriggerValueKey1' =
                  IF key1Pressed' THEN Min(lastRapidTriggerValueKey1, value1')
                                  ELSE Max(lastRapidTriggerValueKey1, value1')
           /\ lastRapidTriggerValueKey2' =
                  IF key2Pressed' THEN Min(lastRapidTriggerValueKey2, value2')
                                  ELSE Max(lastRapidTriggerValueKey2, value2')]_vars

\* C9 witness: the pass that pressed key 1 lowered its extremum to the value read
C9_Witness ==
    /\ op.kind = "cycle"
    /\ config.rapidTrigger
    /\ \E i \in CallsOf(sinkCalls, 1) : sinkCalls[i].fn = "press"
    /\ lastRapidTriggerValueKey1 = value1
    /\ value1 < 400

\* the Keyboard calls a step makes for a key with code code and HID flag hid,
\* pressed before the step and pressed' after it
SinkCallsFor(k, code, hid, before, after) ==
    /\ \A i \in CallsOf(sinkCalls', k) :
           /\ hid
           /\ sinkCalls'[i].code = code
           /\ sinkCalls'[i].fn = "press" => ~before /\ after
           /\ sinkCalls'[i].fn = "release" => before /\ ~after
    /\ Cardinality(CallsOf(sinkCalls', k)) = IF hid /\ before # after THEN 1 ELSE 0

\* C10: Keyboard.press(code) is called only in a pass of loop() in which that
\* key goes from released to pressed with its HID flag set, Keyboard.release(code)
\* only in one in which it goes from pressed to released with the flag set, each
\* once and with the key code of config; with the flag clear no call is made;
\* no other step calls the Keyboard.
C10_SinkCalls ==
    [][/\ ~CycleStep => sinkCalls' = <<>>
       /\ CycleStep =>
              /\ SinkCallsFor(1, config.key1, config.key1HIDEnabled, key1Pressed, key1Pressed')
              /\ SinkCallsFor(2, config.key2, config.key2HIDEnabled, key2Pressed, key2Pressed')]_vars

\* C10 witness: a pass of loop() sent the press of key 1 with the code set by
\* "key1 a", while key 2, pressed with its HID flag clear, made no call
C10_Witness ==
    /\ op.kind = "cycle"
    /\ ~config.key2HIDEnabled
    /\ key2Pressed
    /\ sinkCalls = <<[fn |-> "press", code |-> 97, key |-> 1]>>

\* C11: once setup() has loaded the record, the stored record changes only in
\* the step that handles save, which stores config as it is: every other
\* command line, the safe mode check, every pass of loop() and a power cycle
\* leave it as it was.
C11_StoreOnlyOnSave ==
    [][/\ (op'.kind \in {"line", "cycle", "safemode", "power"} /\ ~Handles(ln_save)) =>
              eeprom' = eeprom
       /\ Handles(ln_save) => eeprom' = config /\ config' = config]_vars

\* C11 witness: a set command was accepted and config now differs from the
\* stored record, which is still the default one that setup() wrote
C11_Witness ==
    /\ op.kind = "line"
    /\ Len(out) = 1 /\ out[1].fmt \in SetFormats
    /\ config # eeprom
    /\ eeprom = defaultConfig

\* the name lines whose trimmed argument has 1..128 characters, and that argument
NameLines == {ln_name_pad, ln_name_my_pad, ln_name_full}
NameArgument(l) == trim(SubSeq(l, Len(s_name) + 2, Len(l)))

\* C12: an accepted name command makes the name that ping prints the whole
\* trimmed argument of the line, several words included; ping prints the
\* firmware version and that name; and no step other than a name set, a reset
\* or a startup changes the name that ping prints.
C12_PingRepliesName ==
    [][/\ \A l \in NameLines :
              Handles(l) => AcceptedReply /\ nameString(config') = NameArgument(l)
       /\ Handles(ln_ping) =>
              out' = <<Resp("PONG % | %", <<FIRMWARE_VERSION, nameString(config)>>)>>
       /\ (op'.kind \in {"line", "cycle"} /\ ~Handles(ln_reset)
               /\ \A l \in Lines : Handles(l) => getValue(l, 0) # s_name) =>
              nameString(config') = nameString(config)]_vars

\* value clamped to 0..400
Clamp(n) == IF n < 0 THEN 0 ELSE IF n > 400 THEN 400 ELSE n

\* 400 * (raw - low) / (high - low) rounded to the nearest integer, an exact
\* half rounded up (RoundHalfUp) or down (RoundHalfDown), clamped to 0..400
RoundHalfUp(raw, low, high) ==
    LET A == IF high > low THEN raw - low ELSE low - raw
        B == Abs(high - low)
    IN Clamp((800 * A + B) \div (2 * B))
RoundHalfDown(raw, low, high) ==
    LET A == IF high > low THEN raw - low ELSE low - raw
        B == Abs(high - low)
    IN Clamp(0 - ((B - 800 * A) \div (2 * B)))

\* the claims about one result v = mapToRange400(raw, low, high) and the
\* result w for a raw value that is not smaller
MapRange(v, raw, low, high) ==
    /\ v \in 0..400
    /\ raw = low => v = 0
    /\ raw = high => v = 400
MapMonotonic(v, w, low, high) ==
    /\ high > low => v <= w
    /\ high < low => v >= w

\* C13: for raw, low and high in 0..1023 with low # high, mapToRange400(raw,
\* low, high) is in 0..400, is 0 at raw = low and 400 at raw = high, is
\* monotonic in raw, and is 400 * (raw - low) / (high - low) rounded to a nearest
\* integer and clamped, where an exact half goes to either neighbour.
C13_Normalize ==
    op.kind = "cycle" =>
        LET low == config.key1DownPosition
            high == config.key1RestPosition
        IN /\ MapRange(value1, op.raw1, low, high)
           /\ MapRange(value2, op.raw2, low, high)
           /\ MapMonotonic(value1, value2, low, high)
           /\ value1 \in {RoundHalfUp(op.raw1, low, high), RoundHalfDown(op.raw1, low, high)}
           /\ value2 \in {RoundHalfUp(op.raw2, low, high), RoundHalfDown(op.raw2, low, high)}

\* C13 as stated: the result is round(400 * (raw - low) / (high - low)), halves
\* rounded up as round() does, clamped
C13_Original ==
    op.kind = "cycle" =>
        LET low == config.key1DownPosition
            high == config.key1RestPosition
        IN /\ MapRange(value1, op.raw1, low, high)
           /\ MapRange(value2, op.raw2, low, high)
           /\ MapMonotonic(value1, value2, low, high)
           /\ value1 = RoundHalfUp(op.raw1, low, high)
           /\ value2 = RoundHalfUp(op.raw2, low, high)

\* C13 witness: raw 594 on a span of 0..960 is exactly 247.5 and was mapped to 247
C13_Witness ==
    /\ op.kind = "cycle"
    /\ op.raw1 = 594
    /\ config.key1DownPosition = 0 /\ config.key1RestPosition = 960
    /\ value1 = 247
    /\ value2 = 248

\* both boot samples are within SAFEMODE_BOUNDARY of the pressed end of the
\* scale of loop(), on which 0 is the down position and 400 the rest position
HeldDownAtBoot(cfg, raw1, raw2) ==
    /\ \A v \in mapToRange400(raw1, cfg.key1DownPosition, cfg.key1RestPosition) :
           v <= SAFEMODE_BOUNDARY
    /\ \A v \in mapToRange400(raw2, cfg.key2DownPosition, cfg.key2RestPosition) :
           v <= SAFEMODE_BOUNDARY

\* C14: the safe mode check of setup() replaces config by the defaults, with
\* the calibration and the HID flags kept, exactly when both keys are held down
\* at boot, and leaves config as loaded otherwise, in particular with both keys
\* at rest.
C14_SafeModeWhenHeldDown ==
    [][op'.kind = "safemode" =>
           config' = IF HeldDownAtBoot(config, op'.raw1, op'.raw2)
                     THEN resetConfig(config)
                     ELSE config]_vars

\* C15: whenever loop() maps the samples, neither key has its rest position
\* equal to its down position, so mapToRange400 never divides by a span of zero.
C15_SpanNeverZero ==
    op.kind = "cycle" =>
        /\ config.key1RestPosition # config.key1DownPosition
        /\ config.key2RestPosition # config.key2DownPosition

\* C16: a pass of loop() with rapidTrigger on that reads a key all the way up,
\* at value 400, leaves that key released.
C16_ReleasedAtTop ==
    [][CycleStep /\ config.rapidTrigger =>
           /\ value1' = RANGE_MAX => ~key1Pressed'
           /\ value2' = RANGE_MAX => ~key2Pressed']_vars

\* C17: with rapidTrigger on, no pass of loop() presses a key at a value above
\* 400 - TOLERANCE: a press happens at least TOLERANCE below the rest position.
C17_PressGuard ==
    [][CycleStep /\ config.rapidTrigger =>
           /\ (~key1Pressed /\ key1Pressed') => value1' <= RANGE_MAX - TOLERANCE
           /\ (~key2Pressed /\ key2Pressed') => value2' <= RANGE_MAX - TOLERANCE]_vars

\* C17 witness: with the smallest sensitivity, key 1 was pressed at exactly 400 - TOLERANCE
C17_Witness ==
    /\ op.kind = "cycle"
    /\ config.rapidTrigger
    /\ config.rapidTriggerSensitivity = TOLERANCE
    /\ value1 = RANGE_MAX - TOLERANCE
    /\ lastRapidTriggerValueKey1 = value1
    /\ \E i \in CallsOf(sinkCalls, 1) : sinkCalls[i].fn = "press"

\* the token is the decimal text of an integer as it is canonically written:
\* an optional minus sign, then digits without a leading zero, and not "-0"
IsCanonicalDecimal(s) ==
    /\ s # <<>>
    /\ LET d == IF s[1] = 45 THEN Tail(s) ELSE s
       IN /\ d # <<>>
          /\ \A i \in DOMAIN d : IsDigit(d[i])
          /\ Len(d) > 1 => d[1] # 48
          /\ s[1] = 45 => d # <<48>>

\* the integer a canonical decimal text denotes
RECURSIVE DigitsValue(_)
DigitsValue(d) == IF d = <<>> THEN 0 ELSE 10 * DigitsValue(SubSeq(d, 1, Len(d) - 1)) + (d[Len(d)] - 48)
DecimalValue(s) == IF s[1] = 45 THEN 0 - DigitsValue(Tail(s)) ELSE DigitsValue(s)

\* the coercion order of the claim, for integers from lo to hi
CoercionOrder(value, lo, hi) ==
    IF IsCanonicalDecimal(value) /\ DecimalValue(value) \in lo..hi
    THEN [ok |-> TRUE, valueInt |-> DecimalValue(value)]
    ELSE IF Len(value) = 1 THEN [ok |-> TRUE, valueInt |-> value[1]]
    ELSE IF value = s_true THEN [ok |-> TRUE, valueInt |-> 1]
    ELSE IF value = s_false THEN [ok |-> TRUE, valueInt |-> 0]
    ELSE [ok |-> FALSE, valueInt |-> 0]

\* the lines with a value token that are no reset, save, ping or name command
CoercedLines ==
    {l \in Lines : getValue(l, 1) # <<>>
                   /\ getValue(l, 0) \notin {s_reset, s_save, s_ping, s_name}}

\* the step that handles a line of CoercedLines validates and sets the field
\* with the integer that CoercionOrder gives, or does nothing at all if it gives none
FollowsOrder(lo, hi) ==
    \A l \in CoercedLines :
        Handles(l) =>
            LET c == CoercionOrder(getValue(l, 1), lo, hi)
                r == setField(config, getValue(l, 0), c.valueInt, getValue(l, 1))
            IN IF c.ok THEN config' = r.config /\ out' = r.out
                       ELSE config' = config /\ out' = <<>>

\* C18: the value token of a set command of a field other than name is coerced
\* in this order: the canonical decimal text of an integer of the int type
\* (-32768..32767) is that integer; otherwise one character is its ASCII code;
\* otherwise true is 1 and false is 0; every other token, the decimal text of a
\* larger integer included, makes the line ignored without validation or reply.
C18_CoercionOrder == [][FollowsOrder(-32768, 32767)]_vars

\* C18 as stated: the canonical decimal text of any integer is that integer
C18_Original == [][FollowsOrder(-100000, 100000)]_vars

\* C18 witness: "key1 a" set key1 to the code of the letter, and then
\* "rts 70000" was ignored without a reply
C18_Witness ==
    /\ op.kind = "line" /\ op.input = ln_rts_70000
    /\ out = <<>>
    /\ config.key1 = 97
    /\ config.rapidTriggerSensitivity = 10

\* C19: for each key the Keyboard calls alternate press(c), release(c): a
\* press is made only while no code pressed for the key is held, a release only
\* while the code held for the key is the one it releases, and while the key
\* is released no code pressed for it is still held.
C19_PressReleaseAlternate ==
    [][CycleStep =>
           /\ \A i \in DOMAIN sinkCalls' :
                  LET c == sinkCalls'[i]
                  IN /\ c.fn = "press" => sinkHeld[c.key] = {}
                     /\ c.fn = "release" => sinkHeld[c.key] = {c.code}
           /\ ~key1Pressed' => sinkHeld'[1] = {}
           /\ ~key2Pressed' => sinkHeld'[2] = {}]_vars

\* C20: the load step of setup(): if the uid of the stored record is not
\* CONFIG_UID, both the stored record and config become the default record and
\* nothing is printed; if it is CONFIG_UID, the stored record stays as it is
\* and config becomes equal to it.
C20_StartupRecovery ==
    [][op'.kind = "load" =>
           /\ out' = <<>>
           /\ eeprom.uid # CONFIG_UID => eeprom' = defaultConfig /\ config' = defaultConfig
           /\ eeprom.uid = CONFIG_UID => eeprom' = eeprom /\ config' = eeprom]_vars

\* C20 witness: the first load, over the erased EEPROM, left the default record
\* in both places
C20_Witness ==
    /\ op.kind = "load"
    /\ steps = 0
    /\ eeprom = defaultConfig
    /\ config = defaultConfig

====
